---- MODULE Spec2Model ----
(***************************************************************************)
(* Model of src/competition.py: the hot dog eating competition simulation  *)
(* (Competition.run, Competition.winner, Event ordering and rounding).     *)
(*                                                                         *)
(* Numbers.  The program computes with Python floats.  The model keeps     *)
(* every time and every item count as an integer number of 1/Scale units   *)
(* (Scale = 10000, i.e. 0.0001 s and 0.0001 item), so the 3-decimal        *)
(* rounding of Event.rounded (to multiples of 10 units) and the 2-decimal  *)
(* rounding of the terminal item count (to multiples of 100 units) are     *)
(* real conversions.  The one division of the program                      *)
(* (duration_left / next_eaten_time) is kept exact as a numerator and a    *)
(* denominator until round_value quantizes it.                             *)
(*                                                                         *)
(* Names.  Competitor names are Python strings, compared by code point;    *)
(* the model writes a name as the sequence of its code points.             *)
(***************************************************************************)
EXTENDS Integers, Sequences, FiniteSets, TLC

\* ------------------------------------------------------------------ bounds

\* Rate functions are tables over the item indexes 0..MaxIndex, constant
\* from MaxIndex on.
MaxIndex == 1
\* Largest number of calls of run() on one Competition object.
MaxRuns == 2

\* "A", "AB", "B"
Names == {<<65>>, <<65, 66>>, <<66>>}
\* the key sets of the competitor mappings: none, one or two of the names
CompetitorSets == {T \in SUBSET Names : T # Names}
\* seconds per item, in 1/Scale s: 1.0000 s and 2.0004 s
RateValues == {10000, 20004}
\* competition durations, in 1/Scale s: -1 s, 0 s, 0.5 s, 2 s, 3.0006 s
Durations == {-10000, 0, 5000, 20000, 30006}

\* ------------------------------------------------------------- arithmetic

\* fixed-point resolution of the model's numbers: units per second / per item
Scale == 10000
\* Decimal('1.000') and Decimal('1.00') in units of 1/Scale
Prec3 == Scale \div 1000
Prec2 == Scale \div 100

Min(a, b) == IF a <= b THEN a ELSE b

SetMax(S) == CHOOSE x \in S : \A y \in S : y <= x
SetMin(S) == CHOOSE x \in S : \A y \in S : x <= y

\* The integer nearest to num/den (den > 0), ties to the even integer:
\* Decimal.quantize under the default context rounding ROUND_HALF_EVEN.
RoundHalfEven(num, den) ==
    LET q == num \div den
        r == num % den
    IN  IF 2 * r < den THEN q
        ELSE IF 2 * r > den THEN q + 1
        ELSE IF q % 2 = 0 THEN q ELSE q + 1

\* round_value(value, precision) for value = num/den units of 1/Scale:
\* the multiple of `precision` nearest to it.
round_value(num, den, precision) == precision * RoundHalfEven(num, den * precision)

\* ------------------------------------------------------------------ Event

\* Event.__init__
Event(elapsed_time, name, total_hot_dogs_eaten) ==
    [elapsed_time |-> elapsed_time, name |-> name,
     total_hot_dogs_eaten |-> total_hot_dogs_eaten]

\* str.__lt__ on the code point sequences
StrLt(a, b) ==
    \E k \in 0..Min(Len(a), Len(b)) :
        /\ \A j \in 1..k : a[j] = b[j]
        /\ \/ k = Len(a) /\ k < Len(b)
           \/ k < Len(a) /\ k < Len(b) /\ a[k + 1] < b[k + 1]

StrLe(a, b) == a = b \/ StrLt(a, b)

\* Event.__lt__
EventLt(self, other) ==
    IF self.elapsed_time = other.elapsed_time
    THEN StrLt(self.name, other.name)
    ELSE self.elapsed_time < other.elapsed_time

\* Event.rounded
rounded(self) ==
    Event(round_value(self.elapsed_time, 1, Prec3),
          self.name,
          round_value(self.total_hot_dogs_eaten, 1, Prec3))

\* list.sort(): stable, decided by __lt__ alone.  Element k of the list goes
\* to position Rank(list, k): after every element that is less than it and
\* after every earlier element that it is not less than.
Rank(list, k) ==
    1 + Cardinality({j \in 1..Len(list) :
                       \/ EventLt(list[j], list[k])
                       \/ j < k /\ ~EventLt(list[k], list[j])})

SortEvents(list) ==
    [p \in 1..Len(list) |-> list[CHOOSE k \in 1..Len(list) : Rank(list, k) = p]]

\* max(list): the first element that no element is greater than, decided
\* by __lt__
MaxEvent(list) ==
    list[CHOOSE k \in 1..Len(list) :
            /\ \A j \in 1..Len(list) : ~EventLt(list[k], list[j])
            /\ \A j \in 1..(k - 1) : \E m \in 1..Len(list) : EventLt(list[j], list[m])]

\* map(lambda x: x.rounded(), list)
MapRounded(list) == [k \in 1..Len(list) |-> rounded(list[k])]

\* ------------------------------------------------------------ Competition

VARIABLES
    competitors,  \* self.competitors: name -> rate table
    order,        \* iteration order of the competitors dict
    duration,     \* self.duration
    event_list,   \* self.event_list
    pc,           \* "idle": no run() yet, "loop": inside run(), "done": run() returned
    cnt,          \* run(): cnt
    i,            \* run(): position of the for loop in `order`
    durations,    \* run(): durations dict
    breaks,       \* run(): breaks dict
    runs,         \* number of calls of run() so far
    returned,     \* the list returned by each call of run(), in call order
    emitted,      \* history: every event appended, in emission order
    winner_out    \* outcome of the last call of winner()

vars == <<competitors, order, duration, event_list, pc, cnt, i, durations,
          breaks, runs, returned, emitted, winner_out>>

RateTables == [0..MaxIndex -> RateValues]

\* self.competitors[competitor](n)
RateFn(competitor, n) == competitors[competitor][Min(n, MaxIndex)]

CompetitorNames == DOMAIN competitors

Orders(S) ==
    {s \in [1..Cardinality(S) -> S] : \A a, b \in DOMAIN s : a # b => s[a] # s[b]}

\* The loop counter of run() is unbounded in the program; no run with rates
\* of at least SetMin(RateValues) lasts this many outer iterations.
MaxCnt == (SetMax(Durations) \div SetMin(RateValues)) + 2

Init ==
    /\ competitors \in UNION {[S -> RateTables] : S \in CompetitorSets}
    /\ order \in Orders(DOMAIN competitors)
    /\ duration \in Durations
    /\ event_list = <<>>
    /\ pc = "idle"
    /\ cnt = 0
    /\ i = 1
    /\ durations = <<>>
    /\ breaks = <<>>
    /\ runs = 0
    /\ returned = <<>>
    /\ emitted = <<>>
    /\ winner_out = [status |-> "none", name |-> <<>>]

\* run(): cnt = 0, durations = dict(), breaks[competitor] = 0 for everyone
RunStart ==
    /\ pc \in {"idle", "done"}
    /\ runs < MaxRuns
    /\ pc' = "loop"
    /\ cnt' = 0
    /\ i' = 1
    /\ durations' = <<>>
    /\ breaks' = [c \in CompetitorNames |-> 0]
    /\ runs' = runs + 1
    /\ UNCHANGED <<competitors, order, duration, event_list, returned, emitted, winner_out>>

\* mutant of IsActive: the finished flag is never looked at
IsActiveAlways(b) == TRUE

\* `if not breaks[competitor]`
IsActive(b) == b = 0

\* mutant of Accumulate: `=` for `+=`
AccumulateOverwrite(d, competitor, current_eaten_time) ==
    IF competitor \in DOMAIN d
    THEN [d EXCEPT ![competitor] = current_eaten_time]
    ELSE d @@ (competitor :> current_eaten_time)

\* durations[competitor] += current_eaten_time, or the first assignment
Accumulate(d, competitor, current_eaten_time) ==
    IF competitor \in DOMAIN d
    THEN [d EXCEPT ![competitor] = @ + current_eaten_time]
    ELSE d @@ (competitor :> current_eaten_time)

\* mutant of Diff: the look-ahead to the next item is dropped
DiffNoLookahead(dur, elapsed, next_eaten_time) == dur - elapsed

\* diff = self.duration - durations[competitor] - next_eaten_time
Diff(dur, elapsed, next_eaten_time) == dur - elapsed - next_eaten_time

\* mutant of IsOutOfTime: `<=` for `<`
IsOutOfTimeInclusive(diff) == diff <= 0

\* `if diff < 0`
IsOutOfTime(diff) == diff < 0

\* round_value(cnt + 1 + duration_left / next_eaten_time, Decimal('1.00'))
TotalHotDogEaten(n, duration_left, next_eaten_time) ==
    round_value(((n + 1) * next_eaten_time + duration_left) * Scale,
                next_eaten_time, Prec2)

\* history record of one appended event
Emit(e, kind) ==
    [name |-> e.name, kind |-> kind, run |-> runs, cnt |-> cnt,
     elapsed_time |-> e.elapsed_time,
     total_hot_dogs_eaten |-> e.total_hot_dogs_eaten]

\* one pass of the body of `for competitor in self.competitors`
LoopBody ==
    /\ pc = "loop"
    /\ i <= Len(order)
    /\ LET competitor == order[i] IN
       IF IsActive(breaks[competitor])
       THEN LET current_eaten_time == RateFn(competitor, cnt)
                next_eaten_time == RateFn(competitor, cnt + 1)
                d == Accumulate(durations, competitor, current_eaten_time)
                event == Event(d[competitor], competitor, (cnt + 1) * Scale)
                diff == Diff(duration, d[competitor], next_eaten_time)
                duration_left == duration - d[competitor]
                last == Event(duration, competitor,
                              TotalHotDogEaten(cnt, duration_left, next_eaten_time))
            IN  /\ durations' = d
                /\ IF IsOutOfTime(diff)
                   THEN /\ breaks' = [breaks EXCEPT ![competitor] = 1]
                        /\ event_list' = event_list \o <<event, last>>
                        /\ emitted' = emitted \o <<Emit(event, "item"), Emit(last, "terminal")>>
                   ELSE /\ breaks' = breaks
                        /\ event_list' = Append(event_list, event)
                        /\ emitted' = Append(emitted, Emit(event, "item"))
       ELSE UNCHANGED <<durations, breaks, event_list, emitted>>
    /\ i' = i + 1
    /\ UNCHANGED <<competitors, order, duration, pc, cnt, runs, returned, winner_out>>

RECURSIVE SumValues(_, _)
SumValues(f, S) ==
    IF S = {} THEN 0
    ELSE LET x == CHOOSE y \in S : TRUE IN f[x] + SumValues(f, S \ {x})

\* is_break = sum(breaks.values()) == len(breaks)
is_break == SumValues(breaks, DOMAIN breaks) = Cardinality(DOMAIN breaks)

\* end of the for loop, not every competitor finished: cnt += 1, next pass
NextIteration ==
    /\ pc = "loop"
    /\ i > Len(order)
    /\ ~is_break
    /\ cnt + 1 < MaxCnt
    /\ cnt' = cnt + 1
    /\ i' = 1
    /\ UNCHANGED <<competitors, order, duration, event_list, pc, durations, breaks,
                   runs, returned, emitted, winner_out>>

\* end of the for loop, every competitor finished: cnt += 1, break, sort,
\* round, return
RunReturn ==
    /\ pc = "loop"
    /\ i > Len(order)
    /\ is_break
    /\ cnt' = cnt + 1
    /\ event_list' = SortEvents(event_list)
    /\ returned' = Append(returned, MapRounded(event_list'))
    /\ pc' = "done"
    /\ UNCHANGED <<competitors, order, duration, i, durations, breaks, runs,
                   emitted, winner_out>>

\* max(self.event_list).name; max() of an empty list raises ValueError
winner(list) ==
    IF list = <<>> THEN [status |-> "ValueError", name |-> <<>>]
    ELSE [status |-> "ok", name |-> MaxEvent(list).name]

Winner ==
    /\ pc \in {"idle", "done"}
    /\ winner_out' = winner(event_list)
    /\ UNCHANGED <<competitors, order, duration, event_list, pc, cnt, i, durations,
                   breaks, runs, returned, emitted>>

Next == RunStart \/ LoopBody \/ NextIteration \/ RunReturn \/ Winner

Spec == Init /\ [][Next]_vars

\* run() is straight-line synchronous code: once called, each step of its
\* loop is taken.  Calls of run() and winner() are up to the caller.
LiveSpec == Spec /\ WF_vars(LoopBody) /\ WF_vars(NextIteration) /\ WF_vars(RunReturn)

\* ----------------------------------------------------------------- claims

\* the events appended for competitor c during call number r of run(), in
\* emission order
EventsOf(c, r) == SelectSeq(emitted, LAMBDA e : e.name = c /\ e.run = r)

\* call number r of run() has returned
RunComplete(r) == runs > r \/ (runs = r /\ pc = "done")

\* the item count of the terminal event of competitor c in the first run
TerminalTotal(c) ==
    LET E == EventsOf(c, 1)
    IN  E[CHOOSE k \in 1..Len(E) : E[k].kind = "terminal"].total_hot_dogs_eaten

GreatestName(S) == CHOOSE n \in S : \A m \in S : StrLe(m, n)

\* C1: every list returned by run() is ordered by (elapsed_time, name)
\* ascending on its rounded field values: adjacent elements have increasing
\* elapsed_time, or equal elapsed_time and names in order.
C1_ReturnedSorted ==
    \A r \in 1..Len(returned) :
        \A k \in 1..(Len(returned[r]) - 1) :
            LET a == returned[r][k]
                b == returned[r][k + 1]
            IN  \/ a.elapsed_time < b.elapsed_time
                \/ a.elapsed_time = b.elapsed_time /\ StrLe(a.name, b.name)

\* C2: in the first run() on a fresh Competition every competitor gets at
\* most one terminal event, it is the competitor's last event, it carries
\* elapsed_time = duration, it exists exactly when the competitor's finished
\* flag is set, and every competitor has exactly one once run() has returned.
C2_OneTerminalThenSilence ==
    \A c \in CompetitorNames :
        LET E == EventsOf(c, 1)
            T == {k \in 1..Len(E) : E[k].kind = "terminal"}
        IN  /\ Cardinality(T) <= 1
            /\ \A k \in T : k = Len(E) /\ E[k].elapsed_time = duration
            /\ (runs = 1 /\ pc = "loop") => (breaks[c] = 1 <=> T # {})
            /\ RunComplete(1) => Cardinality(T) = 1

\* a first run has returned in which one competitor finished at least two
\* outer iterations before another one emitted an event
C2_Witness ==
    /\ runs = 1 /\ pc = "done"
    /\ \E p, q \in 1..Len(emitted) :
          /\ p < q
          /\ emitted[p].kind = "terminal"
          /\ emitted[q].name # emitted[p].name
          /\ emitted[q].cnt >= emitted[p].cnt + 2

\* C3: a competitor whose rate_fn(0) exceeds the duration gets exactly one
\* event from the first run(): the terminal event, with elapsed_time =
\* duration and an item count between 0 and 1.
C3_OnlyTerminalEvent ==
    \A c \in CompetitorNames :
        (RunComplete(1) /\ RateFn(c, 0) > duration) =>
            LET E == EventsOf(c, 1)
            IN  /\ Len(E) = 1
                /\ E[1].kind = "terminal"
                /\ E[1].elapsed_time = duration
                /\ 0 <= E[1].total_hot_dogs_eaten
                /\ E[1].total_hot_dogs_eaten <= Scale

\* C4: the events of one competitor in one run, in emission order, have
\* non-decreasing elapsed_time and non-decreasing total_hot_dogs_eaten.
C4_MonotonePerCompetitor ==
    \A c \in CompetitorNames : \A r \in 1..runs :
        LET E == EventsOf(c, r)
        IN  \A k \in 1..(Len(E) - 1) :
                /\ E[k].elapsed_time <= E[k + 1].elapsed_time
                /\ E[k].total_hot_dogs_eaten <= E[k + 1].total_hot_dogs_eaten

\* C5: after one run() on a non-empty mapping the maximum of the internal
\* list is a terminal event (elapsed_time = duration), and winner() returns
\* the lexicographically greatest competitor name.
C5_WinnerIsGreatestName ==
    (runs = 1 /\ pc = "done" /\ CompetitorNames # {}) =>
        /\ MaxEvent(event_list).elapsed_time = duration
        /\ \E k \in 1..Len(emitted) :
              /\ emitted[k].kind = "terminal"
              /\ emitted[k].name = MaxEvent(event_list).name
              /\ emitted[k].total_hot_dogs_eaten = MaxEvent(event_list).total_hot_dogs_eaten
        /\ winner(event_list).name = GreatestName(CompetitorNames)

\* C6: after one run() winner() returns the competitor whose terminal event
\* has the greatest item count, and among competitors with that same count
\* the one whose name comes first.
C6_WinnerAteMost ==
    (runs = 1 /\ pc = "done" /\ CompetitorNames # {}) =>
        LET w == winner(event_list).name
        IN  \A c \in CompetitorNames :
                \/ TerminalTotal(c) < TerminalTotal(w)
                \/ TerminalTotal(c) = TerminalTotal(w) /\ StrLe(w, c)

\* C7: every call of run() returns; with duration <= 0 every competitor is
\* finished at the end of the first outer iteration (cnt = 0) and run()
\* returns after that one pass; with the empty mapping run() returns the
\* empty list after one pass.
C7_RunTerminates ==
    /\ (pc = "loop") ~> (pc = "done")
    /\ []((duration <= 0 /\ pc = "loop" /\ i > Len(order)) =>
            (cnt = 0 /\ \A c \in CompetitorNames : breaks[c] = 1))
    /\ []((pc = "done" /\ (duration <= 0 \/ CompetitorNames = {})) => cnt = 1)
    /\ []((pc = "done" /\ CompetitorNames = {}) => returned[runs] = <<>>)

\* run() has returned for two competitors and a duration that is not positive
C7_Witness ==
    /\ pc = "done"
    /\ duration <= 0
    /\ Cardinality(CompetitorNames) = 2
    /\ Len(returned[runs]) >= 2

C9_RunRepeatable ==
    /\ Len(returned) >= 2 => returned[2] = returned[1]
    /\ (runs = 2 /\ pc = "done") => Len(event_list) = Len(returned[1])

\* C10: every whole-item event for a second or later item has elapsed_time
\* <= duration; only a competitor's first whole-item event can exceed it.
C10_LaterItemsWithinDuration ==
    \A k \in 1..Len(emitted) :
        (emitted[k].kind = "item" /\ emitted[k].elapsed_time > duration) =>
            (emitted[k].cnt = 0 /\ emitted[k].total_hot_dogs_eaten = Scale)

\* one competitor has a second item event, another one a first item event
\* past the duration
C10_Witness ==
    /\ pc = "done"
    /\ \E k \in 1..Len(emitted) :
          emitted[k].kind = "item" /\ emitted[k].total_hot_dogs_eaten >= 2 * Scale
    /\ \E k \in 1..Len(emitted) :
          emitted[k].kind = "item" /\ emitted[k].elapsed_time > duration

====
